---- MODULE Spec2Model ----
(***************************************************************************)
(* MDFTable (modules/table/mdf-table.ts): sorting, filtering and           *)
(* paginating the rows of a table.  Row elements are identified by their   *)
(* position in the initial markup (1..n); a text is a sequence of          *)
(* one-character strings.                                                  *)
(***************************************************************************)
EXTENDS Integers, Sequences, FiniteSets, TLC

\* ------------------------------------------------------------------ bounds
MaxRows == 3
MaxPageSize == 2
MaxPageNo == 3

\* ---------------------------------------------------------------- helpers
\* the column indices of the table
Cols == 0 .. 1

\* `column` argument left out of a call (JS undefined)
NoColumn == -1

\* an optional value: <<>> is JS undefined, <<x>> is the value x
Undefined == <<>>
Some(x) == <<x>>
IsDefined(o) == o # <<>>
ValueOf(o) == o[1]

Range(s) == { s[i] : i \in 1 .. Len(s) }

\* Array.prototype.slice(from, to)
Slice(s, from, to) ==
    LET lo == IF from > Len(s) THEN Len(s) ELSE from
        hi == IF to > Len(s) THEN Len(s) ELSE to
    IN  IF hi <= lo THEN <<>> ELSE [i \in 1 .. (hi - lo) |-> s[lo + i]]

\* Array.prototype.slice(from)
SliceFrom(s, from) == Slice(s, from, Len(s))

\* Math.ceil(a / b) for a >= 0, b >= 1
Ceil(a, b) == (a + b - 1) \div b

\* ------------------------------------------------------------------- text
DigitChars == << "0", "1", "2", "3", "4", "5", "6", "7", "8", "9" >>

Digits == { DigitChars[i] : i \in 1 .. Len(DigitChars) }

\* String.prototype.toUpperCase, one character
LowerLetters ==
    << "a", "b", "c", "d", "e", "f", "g", "h", "i", "j", "k", "l", "m",
       "n", "o", "p", "q", "r", "s", "t", "u", "v", "w", "x", "y", "z" >>

UpperLetters ==
    << "A", "B", "C", "D", "E", "F", "G", "H", "I", "J", "K", "L", "M",
       "N", "O", "P", "Q", "R", "S", "T", "U", "V", "W", "X", "Y", "Z" >>

Letters == Range(LowerLetters) \cup Range(UpperLetters)

\* letter -> its position in the alphabet
LetterTable ==
    [ch \in Letters |->
        CHOOSE i \in 1 .. Len(LowerLetters) :
            ch \in {LowerLetters[i], UpperLetters[i]}]

\* position of ch in the alphabet, 0 if it is no letter
LetterIndex(ch) == IF ch \in Letters THEN LetterTable[ch] ELSE 0

UpperChar(ch) ==
    IF LetterIndex(ch) = 0 THEN ch ELSE UpperLetters[LetterIndex(ch)]

\* String.prototype.toUpperCase
ToUpperCase(t) == [i \in 1 .. Len(t) |-> UpperChar(t[i])]

\* String.prototype.includes
Includes(t, sub) ==
    \E i \in 0 .. (Len(t) - Len(sub)) :
        \A j \in 1 .. Len(sub) : t[i + j] = sub[j]

\* whitespace between the cells of a row in the markup
RowSep == <<" ">>

\* Node.textContent of a row: the text of its cells and of the whitespace
\* between them, in document order
RowText(cs) == cs[1] \o RowSep \o cs[2]

\* the rows a table is built from: <<cell 0, cell 1>>
RowPool ==
    { << <<"b">>, <<"2">> >>,
      << <<"A">>, <<"1", "0">> >> }

\* values passed to filter()
FilterValues == { <<>>, <<"a">>, <<"2">> }

\* ------------------------------------------------------------------- sort
IsDigit(ch) == ch \in Digits

\* digit -> its value
DigitTable ==
    [ch \in Digits |-> (CHOOSE i \in 1 .. Len(DigitChars) : DigitChars[i] = ch) - 1]

DigitVal(ch) == DigitTable[ch]

\* a collation in which every capital letter comes before every small one
WeightByCase(ch) ==
    IF IsDigit(ch) THEN 1 + DigitVal(ch)
    ELSE IF ch \in Range(UpperLetters)
    THEN 10 + LetterIndex(ch)
    ELSE IF LetterIndex(ch) # 0 THEN 10 + Len(UpperLetters) + LetterIndex(ch)
    ELSE 0

\* primary collation weight of one character: spaces and punctuation, then
\* digits, then letters without regard to case (sensitivity: 'base')
Weight(ch) ==
    IF IsDigit(ch) THEN 1 + DigitVal(ch)
    ELSE IF LetterIndex(ch) # 0 THEN 10 + LetterIndex(ch)
    ELSE 0

\* index of the last character of the digit run that starts at i
RECURSIVE RunEnd(_, _)
RunEnd(t, i) ==
    IF i < Len(t) /\ IsDigit(t[i + 1]) THEN RunEnd(t, i + 1) ELSE i

\* value of the digit run t[i..e]
RECURSIVE RunVal(_, _, _)
RunVal(t, i, e) ==
    IF e < i THEN 0 ELSE 10 * RunVal(t, i, e - 1) + DigitVal(t[e])

\* Intl.Collator(undefined, {numeric: true, sensitivity: 'base'}).compare,
\* from position i of s1 and position j of s2
RECURSIVE CompareFrom(_, _, _, _)
CompareFrom(s1, i, s2, j) ==
    IF i > Len(s1) /\ j > Len(s2) THEN 0
    ELSE IF i > Len(s1) THEN -1
    ELSE IF j > Len(s2) THEN 1
    ELSE IF IsDigit(s1[i]) /\ IsDigit(s2[j])
    THEN LET e1 == RunEnd(s1, i)
             e2 == RunEnd(s2, j)
             n1 == RunVal(s1, i, e1)
             n2 == RunVal(s2, j, e2)
         IN  IF n1 < n2 THEN -1
             ELSE IF n1 > n2 THEN 1
             ELSE CompareFrom(s1, e1 + 1, s2, e2 + 1)
    ELSE IF Weight(s1[i]) < Weight(s2[j]) THEN -1
    ELSE IF Weight(s1[i]) > Weight(s2[j]) THEN 1
    ELSE CompareFrom(s1, i + 1, s2, j + 1)

CollatorCompare(s1, s2) == CompareFrom(s1, 1, s2, 1)

\* a comparator that sorts in ascending order whatever the direction
TextComparatorAscending(cs, column, asc, a, b) ==
    CollatorCompare(cs[a][column + 1], cs[b][column + 1])

\* the comparator sortColumn hands to Array.prototype.sort for a text column
TextComparator(cs, column, asc, a, b) ==
    LET s1 == cs[a][column + 1]
        s2 == cs[b][column + 1]
    IN  IF asc THEN CollatorCompare(s1, s2) ELSE CollatorCompare(s2, s1)

\* Array.prototype.sort is stable: x goes behind every element that does not
\* compare greater than it
RECURSIVE InsertSorted(_, _, _, _, _)
InsertSorted(cs, column, asc, sorted, x) ==
    IF sorted = <<>> THEN <<x>>
    ELSE LET last == sorted[Len(sorted)]
         IN  IF TextComparator(cs, column, asc, last, x) <= 0
             THEN Append(sorted, x)
             ELSE Append(InsertSorted(cs, column, asc,
                                      SubSeq(sorted, 1, Len(sorted) - 1), x),
                         last)

RECURSIVE SortedRows(_, _, _, _)
SortedRows(cs, column, asc, rws) ==
    IF rws = <<>> THEN <<>>
    ELSE InsertSorted(cs, column, asc,
                      SortedRows(cs, column, asc, SubSeq(rws, 1, Len(rws) - 1)),
                      rws[Len(rws)])


\* ------------------------------------------------------------------- dates
\* not a number (the other numbers of the model are >= 0)
NaN == -1

\* the characters of the class [.-/] of convertStringToDate's split: in a
\* character class .-/ is the range from "." to "/", which holds these two
SplitChars == {".", "/"}

\* String.prototype.split at the characters of SplitChars
RECURSIVE Split(_)
Split(t) ==
    IF \A i \in 1 .. Len(t) : t[i] \notin SplitChars THEN << t >>
    ELSE LET k == CHOOSE i \in 1 .. Len(t) :
                      /\ t[i] \in SplitChars
                      /\ \A j \in 1 .. (i - 1) : t[j] \notin SplitChars
         IN  << SubSeq(t, 1, k - 1) >> \o Split(SubSeq(t, k + 1, Len(t)))

\* unary plus on element i of the split (undefined past its end)
ToNumber(tokens, i) ==
    IF i > Len(tokens) THEN NaN
    ELSE IF \A j \in 1 .. Len(tokens[i]) : IsDigit(tokens[i][j])
    THEN RunVal(tokens[i], 1, Len(tokens[i]))
    ELSE NaN

IsLeapYear(y) == (y % 4 = 0 /\ y % 100 # 0) \/ y % 400 = 0

DaysInMonth(y, m) ==
    IF m = 1 THEN (IF IsLeapYear(y) THEN 29 ELSE 28)
    ELSE IF m \in {3, 5, 8, 10} THEN 30
    ELSE 31

\* days of year y before its month m (0 is January)
RECURSIVE DaysBeforeMonth(_, _)
DaysBeforeMonth(y, m) ==
    IF m = 0 THEN 0 ELSE DaysBeforeMonth(y, m - 1) + DaysInMonth(y, m - 1)

DaysBeforeYear(y) ==
    365 * y + ((y - 1) \div 4) - ((y - 1) \div 100) + ((y - 1) \div 400)

\* new Date(year, monthIndex, day) as a day number: monthIndex counts from
\* 0, months past 11 and days past the month's end carry over, years 0..99
\* are years of the 20th century; NaN is the invalid date
NewDate(year, monthIndex, day) ==
    IF year = NaN \/ monthIndex = NaN \/ day = NaN THEN NaN
    ELSE LET y0 == IF year <= 99 THEN 1900 + year ELSE year
             y == y0 + (monthIndex \div 12)
             m == monthIndex % 12
         IN  DaysBeforeYear(y) + DaysBeforeMonth(y, m) + day - 1

\* convertStringToDate(date, format); a format that is none of the four
\* leaves finalDate undefined, which compares like the invalid date
convertStringToDate(date, format) ==
    LET splitDate == Split(date)
        n(i) == ToNumber(splitDate, i + 1)
    IN  IF format = "DMY" THEN NewDate(n(2), n(1), n(0))
        ELSE IF format = "MDY" THEN NewDate(n(2), n(0), n(1))
        ELSE IF format = "YMD" THEN NewDate(n(0), n(1), n(2))
        ELSE IF format = "YDM" THEN NewDate(n(0), n(2), n(1))
        ELSE NaN

\* s1 < s2 on Date objects: false when either is invalid
DateLess(s1, s2) == s1 # NaN /\ s2 # NaN /\ s1 < s2

\* what a comparator call does other than return a number
Throws == 2

\* a comparator that takes a cell without a format for an invalid date
DateComparatorLenient(cs, fm, column, asc, a, b) ==
    LET d(r) == IF IsDefined(fm[r][column + 1])
                THEN convertStringToDate(cs[r][column + 1],
                                         ValueOf(fm[r][column + 1]))
                ELSE NaN
    IN  IF asc
        THEN (IF DateLess(d(a), d(b)) THEN -1
              ELSE IF DateLess(d(b), d(a)) THEN 1 ELSE 0)
        ELSE (IF DateLess(d(b), d(a)) THEN -1
              ELSE IF DateLess(d(a), d(b)) THEN 1 ELSE 0)

\* the comparator sortColumn hands to Array.prototype.sort for a date
\* column; fm[r][column + 1] is the data-date-format attribute of the cell
DateComparator(cs, fm, column, asc, a, b) ==
    IF IsDefined(fm[a][column + 1]) /\ IsDefined(fm[b][column + 1])
    THEN LET s1 == convertStringToDate(cs[a][column + 1],
                                       ValueOf(fm[a][column + 1]))
             s2 == convertStringToDate(cs[b][column + 1],
                                       ValueOf(fm[b][column + 1]))
         IN  IF asc
             THEN (IF DateLess(s1, s2) THEN -1
                   ELSE IF DateLess(s2, s1) THEN 1 ELSE 0)
             ELSE (IF DateLess(s2, s1) THEN -1
                   ELSE IF DateLess(s1, s2) THEN 1 ELSE 0)
    ELSE Throws

\* the sort of a date column: [rows, error]; a comparator that throws ends
\* the sort and leaves the array as it was
RECURSIVE InsertSortedDate(_, _, _, _, _, _)
InsertSortedDate(cs, fm, column, asc, sorted, x) ==
    IF sorted = <<>> THEN [rows |-> <<x>>, error |-> ""]
    ELSE LET last == sorted[Len(sorted)]
             c == DateComparator(cs, fm, column, asc, last, x)
         IN  IF c = Throws THEN [rows |-> <<>>, error |-> "Error"]
             ELSE IF c <= 0 THEN [rows |-> Append(sorted, x), error |-> ""]
             ELSE LET rest == InsertSortedDate(cs, fm, column, asc,
                                  SubSeq(sorted, 1, Len(sorted) - 1), x)
                  IN  IF rest.error # "" THEN rest
                      ELSE [rows |-> Append(rest.rows, last), error |-> ""]

RECURSIVE SortedDateRows(_, _, _, _, _)
SortedDateRows(cs, fm, column, asc, rws) ==
    IF rws = <<>> THEN [rows |-> <<>>, error |-> ""]
    ELSE LET front == SortedDateRows(cs, fm, column, asc,
                                     SubSeq(rws, 1, Len(rws) - 1))
         IN  IF front.error # "" THEN front
             ELSE InsertSortedDate(cs, fm, column, asc, front.rows,
                                   rws[Len(rws)])

\* this.rows after sortColumn(column) and the error it threw, if any
SortColumn(cs, fm, types, column, asc, rws) ==
    IF types[column] = "Date"
    THEN LET out == SortedDateRows(cs, fm, column, asc, rws)
         IN  IF out.error # "" THEN [rows |-> rws, error |-> out.error]
             ELSE out
    ELSE [rows |-> SortedRows(cs, column, asc, rws), error |-> ""]

\* ------------------------------------------------------------------ state
VARIABLES
    opts,           \* this.options, the ones read after construction
    cells,          \* row element -> the text of its cells
    rows,           \* this.rows: the row elements, in body order
    hidden,         \* the row elements carrying the class mdf-hidden
    filteredRows,   \* this.filteredRows (optional)
    itemsPerPage,   \* this.itemsPerPage (0: undefined)
    currPage,       \* this.currPage (0: undefined)
    pages,          \* this.pages (0 before the first paginate: undefined)
    prevDisabled,   \* `previous` control carries the disabled class
    nextDisabled,   \* `next` control carries the disabled class
    pageListeners,  \* click listeners of the two controls are registered
    sortASC,        \* this.sortASC
    isSorted,       \* this.isSorted
    headerSort,     \* header -> its aria-sort marking
    storedLimit,    \* localStorage['mirai-table-page-limit'] (optional)
    dispatched,     \* the events the last call dispatched, in order
    pageLog,        \* the visible rows of each page displayed since the last
                    \* paginate(), while only the `next` control was used
    lastOp,         \* the last call and how it ended
    headerType,     \* header -> its data-column-type attribute
    formats,        \* row element -> the data-date-format attribute of
                    \* each of its cells (optional)
    rowChecked,     \* table -> body row -> its checkbox is checked
    selectedMark,   \* table -> the rows carrying mdf-table__row--selected
                    \* (0 is the header row)
    headChecked,    \* table -> its header checkbox is checked
    headIndeterminate, \* table -> its header checkbox is indeterminate
    selectedRows,   \* table -> this.selectedRows of its instance
    configuredLimit, \* this.options.itemsPerPage (optional: kept by the
                    \* specification of the stored preferences only)
    condensed,      \* the container carries mdf-table--condensed
    storedSpacing,  \* localStorage['mirai-table-spacing'] (optional)
    unloadListener, \* toggleSpacing registered a listener for `unload`
    active,         \* snackbar: this.active
    displayed,      \* snackbar: the element carries the active class
    message,        \* snackbar: this.message (optional)
    queue,          \* snackbar: this.queue
    timer,          \* snackbar: the timeout this.timeout names is pending
    waiters,        \* snackbar: the waitForTransition listeners registered
                    \* for transitionend
    listening,      \* snackbar: the click and keydown listeners are
                    \* registered
    transition,     \* snackbar: a transition of the element is running
    notified,       \* snackbar: the last MaxNotified notifications the
                    \* element dispatched, oldest first
    sortedListener, \* the page listens for MDFTable:sorted
    sortedSeen      \* the body order and the hidden rows as the page's
                    \* listener found them when it was last called (optional)

tableVars == << opts, cells, rows, hidden, filteredRows, itemsPerPage,
                currPage, pages, prevDisabled, nextDisabled, pageListeners,
                sortASC, isSorted, headerSort, storedLimit, dispatched,
                pageLog, lastOp >>

\* the markup a call never changes
markupVars == << headerType, formats >>

\* the checkboxes of the tables of the document and the row counters
selectVars == << rowChecked, selectedMark, headChecked, headIndeterminate,
                selectedRows >>

\* the spacing of the table, stored and displayed
spacingVars == << configuredLimit, condensed, storedSpacing, unloadListener >>

\* the snackbar of the document
snackbarVars == << active, displayed, message, queue, timer, waiters, listening,
                  transition, notified >>

\* the page's listener for MDFTable:sorted and what it found
listenerVars == << sortedListener, sortedSeen >>

\* what no call on the table changes, but for the listeners it calls
asideVars == << markupVars, selectVars, spacingVars, snackbarVars >>

vars == << tableVars, asideVars, listenerVars >>

Call(name, error) == [name |-> name, error |-> error]

\* detail of MDFTable:paginated
PaginatedEvent(page, items) ==
    [type |-> "paginated", currPage |-> page, items |-> items,
     column |-> NoColumn, direction |-> ""]

\* detail of MDFTable:sorted
SortedEvent(column, direction) ==
    [type |-> "sorted", currPage |-> 0, items |-> <<>>,
     column |-> column, direction |-> direction]

\* getSortingOrder() for a value of this.sortASC
SortingOrder(asc) == IF asc THEN "ASC" ELSE "DESC"

getSortingOrder == SortingOrder(sortASC)

hasBeenSorted == isSorted

getFilteredRows == filteredRows

getPages == pages

getCurrentPage == currPage

\* the rows pagination works on: this.filteredRows ? this.filteredRows : rws
Universe(fr, rws) == IF IsDefined(fr) THEN ValueOf(fr) ELSE rws

\* the rows that do not carry mdf-hidden, as a set
Visible == Range(rows) \ hidden

\* ---------------------------------------------------------------- paginate
\* The body of paginate(limit) from "make sure that all rows are visible" on,
\* for the universe u and the hidden set h.  hasControls: the pagination
\* elements were looked up by the constructor (options.paginate); without
\* them the assignment to paginationStats.textContent throws.
PaginateOutcome(u, h, limit, hasControls, prevD, nextD, listeners) ==
    LET shown == h \ Range(u)
        rowsTotal == Len(u)
        rowsToHide == SliceFrom(u, limit)
        pgs == Ceil(rowsTotal, limit)
    IN  IF ~hasControls
        THEN [hidden |-> shown, pages |-> pgs, prevDisabled |-> prevD,
              nextDisabled |-> nextD, listeners |-> listeners,
              dispatched |-> <<>>, error |-> "TypeError"]
        ELSE IF pgs > 1
        THEN [hidden |-> shown \cup Range(rowsToHide), pages |-> pgs,
              prevDisabled |-> TRUE, nextDisabled |-> FALSE,
              listeners |-> TRUE,
              dispatched |-> << PaginatedEvent(1, u) >>, error |-> ""]
        ELSE [hidden |-> shown, pages |-> pgs,
              prevDisabled |-> TRUE, nextDisabled |-> TRUE,
              listeners |-> listeners,
              dispatched |-> << PaginatedEvent(1, u) >>, error |-> ""]

\* --------------------------------------------------------------- constructor
Identity(n) == [i \in 1 .. n |-> i]

AriaSort(asc) == IF asc THEN "ascending" ELSE "descending"

NoMarks == [c \in Cols |-> "none"]

Options ==
    [paginate : BOOLEAN, sortable : BOOLEAN, sortOnLoad : BOOLEAN,
     sortColumn : Cols, order : {"ASC", "DESC"},
     itemsPerPage : 1 .. MaxPageSize, savePreferences : BOOLEAN]

\* the page limit the constructor takes: the stored one if there is one
InitialLimit(o, store) ==
    IF IsDefined(store) THEN ValueOf(store) ELSE o.itemsPerPage

\* localStorage's page limit once the constructor has run on the store
ConstructedStore(o, store) ==
    IF o.paginate /\ o.savePreferences THEN Some(InitialLimit(o, store))
    ELSE store

Tables == UNION { [1 .. n -> RowPool] : n \in 0 .. MaxRows }

\* the state the constructor leaves, for the options o, the table cs and the
\* stored page limit found in localStorage
Construction(o, cs, store) ==
    LET sorted == IF o.sortOnLoad
                  THEN SortedRows(cs, o.sortColumn, o.order = "ASC",
                                  Identity(Len(cs)))
                  ELSE Identity(Len(cs))
        sortedEvents == IF o.sortOnLoad
                        THEN << SortedEvent(o.sortColumn, o.order) >>
                        ELSE <<>>
        limit == InitialLimit(o, store)
        out == PaginateOutcome(sorted, {}, limit, TRUE, FALSE, FALSE, FALSE)
    IN  [opts |-> [paginate |-> o.paginate, sortable |-> o.sortable,
                   savePreferences |-> o.savePreferences],
         cells |-> cs,
         storedLimit |-> ConstructedStore(o, store),
         sortASC |-> (o.order = "ASC"),
         isSorted |-> o.sortOnLoad,
         rows |-> sorted,
         headerSort |-> IF o.sortOnLoad
                        THEN [NoMarks EXCEPT
                                ![o.sortColumn] = AriaSort(o.order = "ASC")]
                        ELSE NoMarks,
         filteredRows |-> Undefined,
         itemsPerPage |-> IF o.paginate THEN limit ELSE 0,
         currPage |-> IF o.paginate THEN 1 ELSE 0,
         pages |-> IF o.paginate THEN out.pages ELSE 0,
         hidden |-> IF o.paginate THEN out.hidden ELSE {},
         prevDisabled |-> o.paginate /\ out.prevDisabled,
         nextDisabled |-> o.paginate /\ out.nextDisabled,
         pageListeners |-> o.paginate /\ out.listeners,
         dispatched |-> IF o.paginate THEN sortedEvents \o out.dispatched
                        ELSE sortedEvents,
         pageLog |-> IF o.paginate THEN << Range(sorted) \ out.hidden >>
                     ELSE <<>>,
         lastOp |-> Call("constructor", "")]

Constructed(o, cs, store) ==
    LET c == Construction(o, cs, store)
    IN  /\ opts = c.opts
        /\ cells = c.cells
        /\ rows = c.rows
        /\ hidden = c.hidden
        /\ filteredRows = c.filteredRows
        /\ itemsPerPage = c.itemsPerPage
        /\ currPage = c.currPage
        /\ pages = c.pages
        /\ prevDisabled = c.prevDisabled
        /\ nextDisabled = c.nextDisabled
        /\ pageListeners = c.pageListeners
        /\ sortASC = c.sortASC
        /\ isSorted = c.isSorted
        /\ headerSort = c.headerSort
        /\ storedLimit = c.storedLimit
        /\ dispatched = c.dispatched
        /\ pageLog = c.pageLog
        /\ lastOp = c.lastOp

\* options that make no difference are held at one value
InitOptions ==
    { o \in Options : /\ o.sortOnLoad \/ o.sortColumn = 0
                      /\ o.paginate \/ o.itemsPerPage = 1
                      /\ ~o.savePreferences }

InitStores == {Undefined}

\* a table of text columns: no header has a column type, no cell a format
TextColumns == [c \in Cols |-> "Text"]

NoFormats(cs) == [r \in DOMAIN cs |-> [c \in 1 .. 2 |-> Undefined]]

\* the state the snackbar's constructor leaves
ConstructedSnackbar ==
    /\ active = FALSE
    /\ displayed = FALSE
    /\ message = Undefined
    /\ queue = <<>>
    /\ timer = FALSE
    /\ waiters = 0
    /\ listening = FALSE
    /\ transition = FALSE
    /\ notified = <<>>

\* no listener for MDFTable:sorted is registered on the page
NoSortedListener ==
    /\ sortedListener = FALSE
    /\ sortedSeen = Undefined

\* a document whose tables have no checkboxes, with regular spacing and no
\* stored spacing
NoCheckboxes ==
    /\ rowChecked = <<>>
    /\ selectedMark = <<>>
    /\ headChecked = <<>>
    /\ headIndeterminate = <<>>
    /\ selectedRows = <<>>
    /\ configuredLimit = Undefined
    /\ condensed = FALSE
    /\ storedSpacing = Undefined
    /\ unloadListener = FALSE
    /\ ConstructedSnackbar
    /\ NoSortedListener

Init ==
    \E o \in InitOptions, cs \in Tables, store \in InitStores :
        /\ Constructed(o, cs, store)
        /\ headerType = TextColumns
        /\ formats = NoFormats(cs)
        /\ NoCheckboxes

\* ------------------------------------------------------------------ filter
\* a filter that compares the text as written
MatchesCaseSensitive(cs, r, value, column) ==
    IF column # NoColumn /\ column # 0
    THEN Includes(cs[r][column + 1], value)
    ELSE Includes(RowText(cs[r]), value)

\* the predicate of filter(value, column) on one row
Matches(cs, r, value, column) ==
    IF column # NoColumn /\ column # 0
    THEN Includes(ToUpperCase(cs[r][column + 1]), ToUpperCase(value))
    ELSE Includes(ToUpperCase(RowText(cs[r])), ToUpperCase(value))

\* Array.prototype.filter
RECURSIVE FilterSeq(_, _, _, _)
FilterSeq(cs, rws, value, column) ==
    IF rws = <<>> THEN <<>>
    ELSE LET rest == FilterSeq(cs, SubSeq(rws, 1, Len(rws) - 1), value, column)
             r == rws[Len(rws)]
         IN  IF Matches(cs, r, value, column) THEN Append(rest, r) ELSE rest

Filter(value, column) ==
    LET fr == FilterSeq(cells, rows, value, column)
    IN  /\ filteredRows' = Some(fr)
        /\ hidden' = Range(rows) \ Range(fr)
        /\ dispatched' = <<>>
        /\ pageLog' = <<>>
        /\ lastOp' = Call("filter", "")
        /\ UNCHANGED << opts, cells, rows, itemsPerPage, currPage, pages,
                        prevDisabled, nextDisabled, pageListeners, sortASC,
                        isSorted, headerSort, storedLimit >>
        /\ UNCHANGED << asideVars, listenerVars >>

\* ---------------------------------------------------------------- paginate
Paginate(limit) ==
    LET out == PaginateOutcome(Universe(filteredRows, rows), hidden, limit,
                               opts.paginate, prevDisabled, nextDisabled,
                               pageListeners)
    IN  /\ itemsPerPage' = limit
        /\ storedLimit' = IF opts.savePreferences THEN Some(limit)
                          ELSE storedLimit
        /\ currPage' = 1
        /\ pages' = out.pages
        /\ hidden' = out.hidden
        /\ prevDisabled' = out.prevDisabled
        /\ nextDisabled' = out.nextDisabled
        /\ pageListeners' = out.listeners
        /\ dispatched' = out.dispatched
        /\ pageLog' = IF out.error = "" THEN << Range(rows) \ out.hidden >>
                      ELSE <<>>
        /\ lastOp' = Call("paginate", out.error)
        /\ UNCHANGED << opts, cells, rows, filteredRows, sortASC, isSorted,
                        headerSort >>
        /\ UNCHANGED << asideVars, listenerVars >>

\* a page range that starts at itemsPerPage * p
PageSliceFromPage(u, limit, p) == Slice(u, limit * p, limit * p + limit)

\* the rows of page p: slice(itemsPerPage * (p - 1), itemsPerPage * p)
PageSlice(u, limit, p) == Slice(u, limit * (p - 1), limit * (p - 1) + limit)

\* prevPage: "we can't go back any further"
AtFirstPage(page) == page < 2

\* a last-page test that only stops beyond the last page
AtLastPagePassed(page, pgs) == page > pgs

\* nextPage: "we can't go forwards any further"
AtLastPage(page, pgs) == page = pgs

\* click on the `previous` control
PrevPage ==
    /\ pageListeners
    /\ lastOp' = Call("prevPage", "")
    /\ IF AtFirstPage(currPage)
       THEN /\ dispatched' = <<>>
            /\ UNCHANGED << currPage, hidden, prevDisabled, nextDisabled,
                            pageLog >>
       ELSE LET p == currPage - 1
                rowsToShow == PageSlice(Universe(filteredRows, rows),
                                        itemsPerPage, p)
            IN  /\ currPage' = p
                /\ hidden' = Range(rows) \ Range(rowsToShow)
                /\ prevDisabled' = IF p = 1 THEN TRUE ELSE prevDisabled
                /\ nextDisabled' = FALSE
                /\ dispatched' = << PaginatedEvent(p, rowsToShow) >>
                /\ pageLog' = <<>>
    /\ UNCHANGED << opts, cells, rows, filteredRows, itemsPerPage, pages,
                    pageListeners, sortASC, isSorted, headerSort,
                    storedLimit >>
    /\ UNCHANGED << asideVars, listenerVars >>

\* click on the `next` control
NextPage ==
    /\ pageListeners
    /\ AtLastPage(currPage, pages) \/ currPage < MaxPageNo
    /\ lastOp' = Call("nextPage", "")
    /\ IF AtLastPage(currPage, pages)
       THEN /\ dispatched' = <<>>
            /\ UNCHANGED << currPage, hidden, prevDisabled, nextDisabled,
                            pageLog >>
       ELSE LET p == currPage + 1
                rowsToShow == PageSlice(Universe(filteredRows, rows),
                                        itemsPerPage, p)
            IN  /\ currPage' = p
                /\ hidden' = Range(rows) \ Range(rowsToShow)
                /\ nextDisabled' = IF p = pages THEN TRUE ELSE nextDisabled
                /\ prevDisabled' = FALSE
                /\ dispatched' = << PaginatedEvent(p, rowsToShow) >>
                /\ pageLog' = IF pageLog = <<>> THEN <<>>
                              ELSE Append(pageLog, Range(rowsToShow))
    /\ UNCHANGED << opts, cells, rows, filteredRows, itemsPerPage, pages,
                    pageListeners, sortASC, isSorted, headerSort,
                    storedLimit >>
    /\ UNCHANGED << asideVars, listenerVars >>

\* -------------------------------------------------------------------- sort
\* click on the sortable header of `column`
SortOnClick(column) ==
    /\ opts.sortable
    /\ \E asc \in {~sortASC} :
       \E out \in {SortColumn(cells, formats, headerType, column, asc, rows)} :
       \E u \in {Universe(filteredRows, out.rows)} :
          /\ sortASC' = asc
          /\ headerSort' = [NoMarks EXCEPT ![column] = AriaSort(asc)]
          /\ rows' = out.rows
          /\ dispatched' = IF out.error = ""
                           THEN << SortedEvent(column, SortingOrder(asc)) >>
                           ELSE <<>>
          /\ hidden' = IF opts.paginate /\ out.error = ""
                       THEN (hidden \cup Range(u))
                            \ Range(PageSlice(u, itemsPerPage, currPage))
                       ELSE hidden
          /\ pageLog' = <<>>
          /\ lastOp' = Call("sortOnClick", out.error)
          /\ sortedSeen' = IF sortedListener /\ out.error = ""
                           THEN Some([rows |-> out.rows, hidden |-> hidden])
                           ELSE sortedSeen
    /\ UNCHANGED << opts, cells, filteredRows, itemsPerPage, currPage,
                    pages, prevDisabled, nextDisabled, pageListeners,
                    isSorted, storedLimit >>
    /\ UNCHANGED << asideVars, sortedListener >>

\* ------------------------------------------------- a table of dates
MaxDateRows == 2

DateFormats == {"DMY", "MDY", "YMD", "YDM"}

\* calendar dates << year, month, day >>
CalendarDates ==
    { << 2019, 3, 4 >>, << 2019, 12, 31 >>, << 2020, 1, 2 >>,
      << 2020, 1, 31 >>, << 2020, 2, 1 >>, << 2020, 2, 29 >>,
      << 2020, 3, 1 >> }

Pad2(n) == << DigitChars[(n \div 10) + 1], DigitChars[(n % 10) + 1] >>

Pad4(n) == Pad2(n \div 100) \o Pad2(n % 100)

\* the text of a date cell, e.g. 01/31/2020 for << 2020, 1, 31 >> and MDY
DateText(date, format) ==
    LET y == Pad4(date[1])
        m == Pad2(date[2])
        d == Pad2(date[3])
        sep == << "/" >>
    IN  IF format = "DMY" THEN d \o sep \o m \o sep \o y
        ELSE IF format = "MDY" THEN m \o sep \o d \o sep \o y
        ELSE IF format = "YMD" THEN y \o sep \o m \o sep \o d
        ELSE y \o sep \o d \o sep \o m

\* column 0 holds text, column 1 dates
DateColumns == [c \in Cols |-> IF c = 1 THEN "Date" ELSE "Text"]

DateOptions ==
    { o \in Options : /\ ~o.paginate /\ o.sortable /\ ~o.sortOnLoad
                      /\ o.sortColumn = 0 /\ o.itemsPerPage = 1
                      /\ ~o.savePreferences }

\* a table whose date cells are written in one format; the cells of the
\* rows in `lacking` do not carry the data-date-format attribute
InitDate ==
    \E o \in DateOptions, n \in 1 .. MaxDateRows, format \in DateFormats :
        \E dates \in [1 .. n -> CalendarDates], lacking \in SUBSET (1 .. n) :
            LET cs == [r \in 1 .. n |->
                          << << "a" >>, DateText(dates[r], format) >>]
            IN  /\ Constructed(o, cs, Undefined)
                /\ headerType = DateColumns
                /\ formats = [r \in 1 .. n |->
                                 [c \in 1 .. 2 |->
                                     IF c = 2 /\ r \notin lacking
                                     THEN Some(format) ELSE Undefined]]
                /\ NoCheckboxes

NextDate == \E column \in Cols : SortOnClick(column)

SpecDate == InitDate /\ [][NextDate]_vars

\* ---------------------------- dates written with one of the delimiters
\* the delimiters a date text is written with
Delimiters == {".", "-", "/"}

\* the date text t written with the delimiter sep
Delimited(t, sep) == [i \in 1 .. Len(t) |-> IF t[i] = "/" THEN sep ELSE t[i]]

\* a data-date-format value that is none of the four cases of the switch
UnknownFormat == "ISO"

\* a table whose date cells are written in one format with one delimiter
\* and all carry the same data-date-format: the format they are written
\* in, or the unknown one
InitDelimited ==
    \E o \in DateOptions, n \in 1 .. MaxDateRows, format \in DateFormats,
       sep \in Delimiters :
        \E dates \in [1 .. n -> CalendarDates],
           named \in {format, UnknownFormat} :
            LET cs == [r \in 1 .. n |->
                          << << "a" >>,
                             Delimited(DateText(dates[r], format), sep) >>]
            IN  /\ Constructed(o, cs, Undefined)
                /\ headerType = DateColumns
                /\ formats = [r \in 1 .. n |->
                                 [c \in 1 .. 2 |->
                                     IF c = 2 THEN Some(named)
                                     ELSE Undefined]]
                /\ NoCheckboxes

NextDelimited == \E column \in Cols : SortOnClick(column)

SpecDelimited == InitDelimited /\ [][NextDelimited]_vars

\* ------------------------------------------------- a table of words
MaxTextRows == 3

TextPool ==
    { << "5" >>, << "3", "0" >>, << "1", "0", "0" >>,
      << "i", "t", "e", "m", "2" >>, << "i", "t", "e", "m", "1", "0" >>,
      << "a", "l", "i", "c", "e" >>, << "B", "o", "b" >>,
      << "C", "h", "a", "r", "l", "i", "e" >> }

TextOptions == DateOptions

InitText ==
    \E o \in TextOptions, n \in 1 .. MaxTextRows :
        \E words \in [1 .. n -> TextPool] :
            LET cs == [r \in 1 .. n |-> << words[r], << "1" >> >>]
            IN  /\ Constructed(o, cs, Undefined)
                /\ headerType = TextColumns
                /\ formats = NoFormats(cs)
                /\ NoCheckboxes

NextText == \E column \in Cols : SortOnClick(column)

SpecText == InitText /\ [][NextText]_vars

\* --------------------------------------------------------- checkboxes
\* this.rows.length of the instance of table t
RowCount(t) == Len(rowChecked[t])

\* the header row of a table, among its rows 1 .. RowCount(t)
HeaderRow == 0

\* the table whose header checkbox the instance of table t wraps:
\* document.querySelector finds the first checkbox of the document, which
\* is the header checkbox of the first table
CheckboxHeader(t) == 1

\* a display that takes a full selection for a partial one
HeaderDisplayNeverAll(count, total, checked, indeterminate) ==
    IF count <= 0 THEN [checked |-> FALSE, indeterminate |-> FALSE]
    ELSE IF count > 0 /\ count <= total
    THEN [checked |-> FALSE, indeterminate |-> TRUE]
    ELSE [checked |-> checked, indeterminate |-> indeterminate]

\* the header checkbox after a row checkbox changed: checkboxEvents'
\* three cases on this.selectedRows, and the state as it was otherwise
HeaderDisplay(count, total, checked, indeterminate) ==
    IF count <= 0 THEN [checked |-> FALSE, indeterminate |-> FALSE]
    ELSE IF count > 0 /\ count < total
    THEN [checked |-> FALSE, indeterminate |-> TRUE]
    ELSE IF count = total
    THEN [checked |-> TRUE, indeterminate |-> FALSE]
    ELSE [checked |-> checked, indeterminate |-> indeterminate]

\* a toggle that also shows the row it selects
ToggleRowRevealing(t, r) ==
    LET checked == ~rowChecked[t][r]
        count == selectedRows[t] + (IF checked THEN 1 ELSE -1)
        h == CheckboxHeader(t)
        display == HeaderDisplay(count, RowCount(t), headChecked[h],
                                 headIndeterminate[h])
    IN  /\ rowChecked' = [rowChecked EXCEPT ![t][r] = checked]
        /\ selectedRows' = [selectedRows EXCEPT ![t] = count]
        /\ selectedMark' = [selectedMark EXCEPT
                               ![t] = IF checked THEN @ \cup {r}
                                      ELSE @ \ {r}]
        /\ headChecked' = [headChecked EXCEPT ![h] = display.checked]
        /\ headIndeterminate' =
               [headIndeterminate EXCEPT ![h] = display.indeterminate]
        /\ lastOp' = Call("toggleRow", "")
        /\ hidden' = hidden \ {r}
        /\ UNCHANGED << opts, cells, rows, filteredRows,
                        itemsPerPage, currPage, pages, prevDisabled,
                        nextDisabled, pageListeners, sortASC, isSorted,
                        headerSort, storedLimit, dispatched, pageLog >>
        /\ UNCHANGED << markupVars, spacingVars, snackbarVars, listenerVars >>

\* the user toggles the checkbox of body row r of table t
ToggleRow(t, r) ==
    LET checked == ~rowChecked[t][r]
        count == selectedRows[t] + (IF checked THEN 1 ELSE -1)
        h == CheckboxHeader(t)
        display == HeaderDisplay(count, RowCount(t), headChecked[h],
                                 headIndeterminate[h])
    IN  /\ rowChecked' = [rowChecked EXCEPT ![t][r] = checked]
        /\ selectedRows' = [selectedRows EXCEPT ![t] = count]
        /\ selectedMark' = [selectedMark EXCEPT
                               ![t] = IF checked THEN @ \cup {r}
                                      ELSE @ \ {r}]
        /\ headChecked' = [headChecked EXCEPT ![h] = display.checked]
        /\ headIndeterminate' =
               [headIndeterminate EXCEPT ![h] = display.indeterminate]
        /\ lastOp' = Call("toggleRow", "")
        /\ UNCHANGED << opts, cells, rows, hidden, filteredRows,
                        itemsPerPage, currPage, pages, prevDisabled,
                        nextDisabled, pageListeners, sortASC, isSorted,
                        headerSort, storedLimit, dispatched, pageLog >>
        /\ UNCHANGED << markupVars, spacingVars, snackbarVars, listenerVars >>

\* the user toggles the header checkbox of table t: the click changes
\* `checked` and clears `indeterminate`, then checkboxEvents runs
ToggleHeader(t) ==
    LET checked == ~headChecked[t]
        h == CheckboxHeader(t)
        afterClick == [headChecked EXCEPT ![t] = checked]
        clearedByClick == [headIndeterminate EXCEPT ![t] = FALSE]
    IN  /\ IF t = h
           THEN /\ headChecked' = afterClick
                /\ headIndeterminate' = clearedByClick
                /\ rowChecked' = [rowChecked EXCEPT
                                     ![t] = [r \in DOMAIN @ |-> checked]]
                /\ selectedMark' =
                       [selectedMark EXCEPT
                           ![t] = IF checked THEN @ \cup (1 .. RowCount(t))
                                  ELSE @ \ (1 .. RowCount(t))]
                /\ selectedRows' =
                       [selectedRows EXCEPT
                           ![t] = IF checked THEN RowCount(t) ELSE 0]
           ELSE LET count == selectedRows[t] + (IF checked THEN 1 ELSE -1)
                    display == HeaderDisplay(count, RowCount(t),
                                             afterClick[h],
                                             clearedByClick[h])
                IN  /\ selectedRows' = [selectedRows EXCEPT ![t] = count]
                    /\ selectedMark' =
                           [selectedMark EXCEPT
                               ![t] = IF checked THEN @ \cup {HeaderRow}
                                      ELSE @ \ {HeaderRow}]
                    /\ headChecked' =
                           [afterClick EXCEPT ![h] = display.checked]
                    /\ headIndeterminate' =
                           [clearedByClick EXCEPT
                               ![h] = display.indeterminate]
                    /\ UNCHANGED rowChecked
        /\ lastOp' = Call("toggleHeader", "")
        /\ UNCHANGED << opts, cells, rows, hidden, filteredRows,
                        itemsPerPage, currPage, pages, prevDisabled,
                        nextDisabled, pageListeners, sortASC, isSorted,
                        headerSort, storedLimit, dispatched, pageLog >>
        /\ UNCHANGED << markupVars, spacingVars, snackbarVars, listenerVars >>

\* ------------------------------------------- tables with checkboxes
MaxSelectRows == 6

MaxSharedRows == 2

PlainOptions ==
    { o \in Options : /\ ~o.paginate /\ ~o.sortable /\ ~o.sortOnLoad
                      /\ o.sortColumn = 0 /\ o.order = "ASC"
                      /\ o.itemsPerPage = 1 /\ ~o.savePreferences }

PlainRow == << << "b" >>, << "2" >> >>

\* the document holds the tables 1 .. Len(boxes), every row of which has a
\* checkbox; boxes[t][r] tells whether the markup has the checkbox of row
\* r of table t checked.  One instance is constructed on each table; the
\* rows and options of the first are the table variables
ConstructedOn(boxes) ==
    /\ \E o \in PlainOptions :
           Constructed(o, [r \in 1 .. Len(boxes[1]) |-> PlainRow], Undefined)
    /\ headerType = TextColumns
    /\ formats = NoFormats(cells)
    /\ rowChecked = boxes
    /\ selectedMark = [t \in DOMAIN boxes |-> {}]
    /\ headChecked = [t \in DOMAIN boxes |-> FALSE]
    /\ headIndeterminate = [t \in DOMAIN boxes |-> FALSE]
    /\ selectedRows = [t \in DOMAIN boxes |-> 0]
    /\ configuredLimit = Undefined
    /\ condensed = FALSE
    /\ storedSpacing = Undefined
    /\ unloadListener = FALSE
    /\ ConstructedSnackbar
    /\ NoSortedListener

Boxes(n) == [1 .. n -> BOOLEAN]

NoneChecked(n) == [r \in 1 .. n |-> FALSE]

\* one table, its row checkboxes checked or not as the markup has them
InitSelect ==
    \E n \in 0 .. MaxSelectRows : \E boxes \in Boxes(n) :
        ConstructedOn(<< boxes >>)

\* one table, no checkbox checked
InitSelectNone ==
    \E n \in 0 .. MaxSelectRows : ConstructedOn(<< NoneChecked(n) >>)

\* two tables in one document, no checkbox checked
InitShared ==
    \E n1, n2 \in 1 .. MaxSharedRows :
        ConstructedOn(<< NoneChecked(n1), NoneChecked(n2) >>)

NextSelect ==
    \/ \E t \in DOMAIN rowChecked : \E r \in 1 .. RowCount(t) :
          ToggleRow(t, r)
    \/ \E t \in DOMAIN rowChecked : ToggleHeader(t)

SpecSelect == InitSelect /\ [][NextSelect]_vars

SpecSelectNone == InitSelectNone /\ [][NextSelect]_vars

SpecShared == InitShared /\ [][NextSelect]_vars

\* ------------------------ a table with checkboxes, sorted and paginated
MaxMixedRows == 2

MixedOptions ==
    { o \in InitOptions : /\ o.paginate /\ o.sortable /\ ~o.sortOnLoad
                          /\ o.order = "ASC" }

\* one paginated, sortable table whose rows have checkboxes, none checked
InitMixed ==
    \E o \in MixedOptions, n \in 1 .. MaxMixedRows :
        \E cs \in [1 .. n -> RowPool] :
            /\ Constructed(o, cs, Undefined)
            /\ headerType = TextColumns
            /\ formats = NoFormats(cs)
            /\ rowChecked = << NoneChecked(n) >>
            /\ selectedMark = << {} >>
            /\ headChecked = << FALSE >>
            /\ headIndeterminate = << FALSE >>
            /\ selectedRows = << 0 >>
            /\ configuredLimit = Undefined
            /\ condensed = FALSE
            /\ storedSpacing = Undefined
            /\ unloadListener = FALSE
            /\ ConstructedSnackbar
            /\ NoSortedListener

NextMixed ==
    \/ \E value \in FilterValues : Filter(value, NoColumn)
    \/ \E limit \in 1 .. MaxPageSize : Paginate(limit)
    \/ PrevPage
    \/ NextPage
    \/ \E column \in Cols : SortOnClick(column)
    \/ \E r \in 1 .. RowCount(1) : ToggleRow(1, r)
    \/ ToggleHeader(1)

SpecMixed == InitMixed /\ [][NextMixed]_vars

\* ------------------------------------------------ stored preferences
\* getItemsPerPage(): the stored page limit if there is one
getItemsPerPage ==
    IF IsDefined(storedLimit) THEN ValueOf(storedLimit) ELSE itemsPerPage

SpacingValues == {"regular", "condensed"}

\* the condensed class once the constructor has looked at the stored
\* spacing; the markup does not carry the class
AppliedSpacing(savePreferences, spacing) ==
    IF savePreferences /\ IsDefined(spacing)
    THEN ValueOf(spacing) = "condensed"
    ELSE FALSE

\* toggleSpacing(): the listener it registers for `unload` returns
\* this.updateSpacing without calling it
ToggleSpacing ==
    /\ condensed' = ~condensed
    /\ unloadListener' = (unloadListener \/ opts.savePreferences)
    /\ lastOp' = Call("toggleSpacing", "")
    /\ UNCHANGED << opts, cells, rows, hidden, filteredRows, itemsPerPage,
                    currPage, pages, prevDisabled, nextDisabled,
                    pageListeners, sortASC, isSorted, headerSort,
                    storedLimit, dispatched, pageLog >>
    /\ UNCHANGED << markupVars, selectVars, configuredLimit, storedSpacing,
                    snackbarVars, listenerVars >>

PreferenceOptions ==
    { o \in Options : /\ o.paginate /\ ~o.sortable /\ ~o.sortOnLoad
                      /\ o.sortColumn = 0 /\ o.order = "ASC" }

PreferenceStores == {Undefined} \cup { Some(n) : n \in 1 .. MaxPageSize }

PreferenceTables == { [r \in 1 .. n |-> PlainRow] : n \in 1 .. MaxPageSize }

\* a page load: the instance is constructed with options o on the table cs
\* while localStorage holds `store` and `spacing`
InitPreferences ==
    \E o \in PreferenceOptions, cs \in PreferenceTables,
       store \in PreferenceStores,
       spacing \in {Undefined} \cup { Some(v) : v \in SpacingValues } :
        /\ Constructed(o, cs, store)
        /\ headerType = TextColumns
        /\ formats = NoFormats(cs)
        /\ rowChecked = <<>>
        /\ selectedMark = <<>>
        /\ headChecked = <<>>
        /\ headIndeterminate = <<>>
        /\ selectedRows = <<>>
        /\ configuredLimit = Some(o.itemsPerPage)
        /\ condensed = AppliedSpacing(o.savePreferences, spacing)
        /\ storedSpacing = spacing
        /\ unloadListener = FALSE
        /\ ConstructedSnackbar
        /\ NoSortedListener

\* the page is left and loaded again: the `unload` listeners run (and store
\* nothing), then the same script constructs an instance on the same markup
Reload ==
    \E o \in PreferenceOptions :
        /\ o.savePreferences = opts.savePreferences
        /\ Some(o.itemsPerPage) = configuredLimit
        /\ LET c == Construction(o, cells, storedLimit)
           IN  /\ opts' = c.opts
               /\ cells' = c.cells
               /\ rows' = c.rows
               /\ hidden' = c.hidden
               /\ filteredRows' = c.filteredRows
               /\ itemsPerPage' = c.itemsPerPage
               /\ currPage' = c.currPage
               /\ pages' = c.pages
               /\ prevDisabled' = c.prevDisabled
               /\ nextDisabled' = c.nextDisabled
               /\ pageListeners' = c.pageListeners
               /\ sortASC' = c.sortASC
               /\ isSorted' = c.isSorted
               /\ headerSort' = c.headerSort
               /\ storedLimit' = c.storedLimit
               /\ dispatched' = c.dispatched
               /\ pageLog' = c.pageLog
               /\ lastOp' = c.lastOp
        /\ condensed' = AppliedSpacing(opts.savePreferences, storedSpacing)
        /\ unloadListener' = FALSE
        /\ UNCHANGED << markupVars, selectVars, configuredLimit,
                        storedSpacing, snackbarVars, listenerVars >>

NextPreferences ==
    \/ \E limit \in 1 .. MaxPageSize : Paginate(limit)
    \/ ToggleSpacing
    \/ Reload

SpecPreferences == InitPreferences /\ [][NextPreferences]_vars

\* ------------------------------------------------------------ snackbar
MaxQueue == 2

MaxWaiters == 3

MaxNotified == 3

Messages == {"saved", "sent"}

\* dispatchEvent(new Event(type)) on the snackbar element, as the page's
\* listeners record it
Notify(log, type) ==
    LET all == Append(log, type)
    IN  IF Len(all) > MaxNotified THEN Tail(all) ELSE all

\* the fields of the snackbar and the state of its element, as a record
SnackbarState ==
    [active |-> active, displayed |-> displayed, message |-> message,
     queue |-> queue, timer |-> timer, waiters |-> waiters,
     listening |-> listening, transition |-> transition,
     notified |-> notified]

\* showSnackbar(msg) in the state sb; msg is optional
Show(sb, msg) ==
    IF sb.active
    THEN [sb EXCEPT !.queue = IF IsDefined(msg) THEN Append(@, ValueOf(msg))
                              ELSE @]
    ELSE [sb EXCEPT !.timer = TRUE,
                    !.active = TRUE,
                    !.message = IF IsDefined(msg) THEN msg ELSE @,
                    !.displayed = TRUE,
                    !.transition = @ \/ ~sb.displayed,
                    !.listening = TRUE,
                    !.notified = Notify(@, "opened")]

\* displayNextMessage() in the state sb
DisplayNextMessage(sb) ==
    IF sb.queue = <<>> THEN sb
    ELSE Show([sb EXCEPT !.queue = Tail(@)], Some(Head(sb.queue)))

\* hideSnackbar(callback) in the state sb: the class goes, which starts a
\* transition if the element carried it, and one more listener waits for
\* transitionend
Hide(sb) ==
    [sb EXCEPT !.displayed = FALSE,
               !.transition = @ \/ sb.displayed,
               !.waiters = @ + 1]

\* one waitForTransition listener runs in the state sb
WaitForTransition(sb) ==
    LET closed == [sb EXCEPT !.timer = FALSE,
                             !.active = FALSE,
                             !.listening = FALSE]
    IN  [DisplayNextMessage(closed) EXCEPT !.waiters = @ - 1,
                                           !.notified = Notify(@, "closed")]

\* the n listeners registered when transitionend is dispatched run one
\* after the other
RECURSIVE RunWaiters(_, _)
RunWaiters(sb, n) ==
    IF n = 0 THEN sb ELSE RunWaiters(WaitForTransition(sb), n - 1)

\* the snackbar is in the state sb after a step
SnackbarBecomes(sb) ==
    /\ active' = sb.active
    /\ displayed' = sb.displayed
    /\ message' = sb.message
    /\ queue' = sb.queue
    /\ timer' = sb.timer
    /\ waiters' = sb.waiters
    /\ listening' = sb.listening
    /\ transition' = sb.transition
    /\ notified' = sb.notified
    /\ UNCHANGED << tableVars, markupVars, selectVars, spacingVars,
                    listenerVars >>

\* the page calls showSnackbar
ShowSnackbar(msg) ==
    /\ active /\ IsDefined(msg) => Len(queue) < MaxQueue
    /\ SnackbarBecomes(Show(SnackbarState, msg))

\* a click on the action or the close button while the element can be seen
ClickButton ==
    /\ listening
    /\ displayed \/ transition
    /\ waiters < MaxWaiters
    /\ SnackbarBecomes(Hide(SnackbarState))

\* the ESC key (options.hideOnESC)
PressEscape ==
    /\ listening
    /\ waiters < MaxWaiters
    /\ SnackbarBecomes(IF active /\ displayed THEN Hide(SnackbarState)
                       ELSE SnackbarState)

\* the delay is over: the timeout calls hideSnackbar
TimerExpires ==
    /\ timer
    /\ SnackbarBecomes(Hide([SnackbarState EXCEPT !.timer = FALSE]))

\* the running transition ends: transitionend is dispatched to the
\* listeners registered at that moment
TransitionEnds ==
    /\ transition
    /\ SnackbarBecomes(
           RunWaiters([SnackbarState EXCEPT !.transition = FALSE], waiters))

InitSnackbar ==
    /\ \E o \in PlainOptions : Constructed(o, <<>>, Undefined)
    /\ headerType = TextColumns
    /\ formats = <<>>
    /\ NoCheckboxes

NextSnackbar ==
    \/ \E msg \in {Undefined} \cup { Some(m) : m \in Messages } :
          ShowSnackbar(msg)
    \/ ClickButton
    \/ PressEscape
    \/ TimerExpires
    \/ TransitionEnds

\* the delay timer fires and every transition completes
SpecSnackbar ==
    /\ InitSnackbar
    /\ [][NextSnackbar]_vars
    /\ WF_vars(TimerExpires)
    /\ WF_vars(TransitionEnds)

Next ==
    \/ \E value \in FilterValues, column \in Cols \cup {NoColumn} :
          Filter(value, column)
    \/ \E limit \in 1 .. MaxPageSize : Paginate(limit)
    \/ PrevPage
    \/ NextPage
    \/ \E column \in Cols : SortOnClick(column)

Spec == Init /\ [][Next]_vars

\* ------------------------------- a paginated table the page listens to
WatchedOptions ==
    { o \in InitOptions : o.paginate /\ o.sortable /\ ~o.sortOnLoad }

\* a paginated, sortable table on a page that has registered a listener
\* for MDFTable:sorted
InitWatched ==
    \E o \in WatchedOptions, cs \in Tables :
        /\ Constructed(o, cs, Undefined)
        /\ headerType = TextColumns
        /\ formats = NoFormats(cs)
        /\ rowChecked = <<>>
        /\ selectedMark = <<>>
        /\ headChecked = <<>>
        /\ headIndeterminate = <<>>
        /\ selectedRows = <<>>
        /\ configuredLimit = Undefined
        /\ condensed = FALSE
        /\ storedSpacing = Undefined
        /\ unloadListener = FALSE
        /\ ConstructedSnackbar
        /\ sortedListener = TRUE
        /\ sortedSeen = Undefined

NextWatched ==
    \/ \E limit \in 1 .. MaxPageSize : Paginate(limit)
    \/ PrevPage
    \/ NextPage
    \/ \E column \in Cols : SortOnClick(column)

SpecWatched == InitWatched /\ [][NextWatched]_vars

\* ================================================================ properties
\* what the statements below compare the component against
LowerChar(ch) ==
    IF ch = "A" THEN "a" ELSE IF ch = "B" THEN "b"
    ELSE IF ch = "C" THEN "c" ELSE ch

Folded(t) == [i \in 1 .. Len(t) |-> LowerChar(t[i])]

\* t contains v, letter case ignored
ContainsFolded(t, v) ==
    \E i \in 1 .. (Len(t) + 1) :
        /\ i + Len(v) - 1 <= Len(t)
        /\ SubSeq(Folded(t), i, i + Len(v) - 1) = Folded(v)

\* the rows of rws, in their order, that are in the set keep
RECURSIVE Select(_, _)
Select(rws, keep) ==
    IF rws = <<>> THEN <<>>
    ELSE IF rws[1] \in keep THEN << rws[1] >> \o Select(Tail(rws), keep)
    ELSE Select(Tail(rws), keep)

\* the row universe in the current row order
RowUniverse ==
    IF IsDefined(filteredRows) THEN Select(rows, Range(ValueOf(filteredRows)))
    ELSE rows

\* the rows at positions [size * (p - 1), size * p) of u, as a set
Block(u, size, p) ==
    { u[i] : i \in { k \in 1 .. Len(u) : size * (p - 1) < k /\ k <= size * p } }

CeilDiv(a, b) == CHOOSE q \in 0 .. a : q * b >= a /\ (q = 0 \/ (q - 1) * b < a)

\* C1: once pagination is initialised, totalPages is
\* ceil(|row universe| / pageSize), and 1 <= currentPage <= totalPages
\* whenever totalPages >= 1.
C1_PaginationInvariant ==
    opts.paginate =>
        /\ getPages = CeilDiv(Len(RowUniverse), itemsPerPage)
        /\ getPages >= 1 => (1 <= getCurrentPage /\ getCurrentPage <= getPages)

\* C2: on a paginated table, after filter(value) returns the current page
\* is 1 and the visible rows are the first pageSize matching rows.
C2_FilterReslicesToPageOne ==
    (opts.paginate /\ lastOp.name = "filter") =>
        /\ getCurrentPage = 1
        /\ Visible = Block(ValueOf(getFilteredRows), itemsPerPage, 1)

\* C3: on a paginated table, after a header-click sort the visible rows are
\* the rows at positions [pageSize*(currentPage-1), pageSize*currentPage) of
\* the row universe in its new order, with or without a filter.
C3_SortReslicesCurrentPage ==
    (opts.paginate /\ lastOp.name = "sortOnClick") =>
        Visible = Block(RowUniverse, itemsPerPage, getCurrentPage)

\* C4: after paginate(pageSize) and stepping with the next control from page
\* 1 to the last page, every row of the universe was visible on exactly one
\* page, rows outside the universe on none, and
\* totalPages = ceil(|universe| / pageSize).
C4_PagesPartitionUniverse ==
    pageLog # <<>> =>
        /\ getPages = CeilDiv(Len(RowUniverse), itemsPerPage)
        /\ \A p \in 1 .. Len(pageLog) : pageLog[p] \subseteq Range(RowUniverse)
        /\ \A p, q \in 1 .. Len(pageLog) :
              p # q => pageLog[p] \cap pageLog[q] = {}
        /\ Len(pageLog) = getPages =>
              UNION Range(pageLog) = Range(RowUniverse)

\* a walk over two pages, the last one partly filled, has reached its end
C4_Witness ==
    /\ Len(pageLog) = 2
    /\ getPages = 2
    /\ getCurrentPage = 2
    /\ itemsPerPage = 2
    /\ Len(RowUniverse) = 3
    /\ lastOp.name = "nextPage"

\* C5: every 'paginated' notification carries the current page and exactly
\* the rows visible on that page.
C5_PaginatedCarriesVisibleRows ==
    \A i \in 1 .. Len(dispatched) :
        dispatched[i].type = "paginated" =>
            /\ dispatched[i].currPage = getCurrentPage
            /\ Range(dispatched[i].items) = Visible
            /\ Len(dispatched[i].items) = Cardinality(Visible)

\* C6: the previous control on page 1 and the next control on the last page
\* (totalPages >= 1) change neither the current page, row visibility nor the
\* controls' disabled state, and emit no notification.
C6_BoundaryNoOp ==
    [][ ( \/ (PrevPage /\ getCurrentPage = 1)
          \/ (NextPage /\ getCurrentPage = getPages /\ getPages >= 1) )
        => /\ UNCHANGED << currPage, pages, hidden, rows, prevDisabled,
                           nextDisabled >>
           /\ dispatched' = <<>> ]_vars

\* the next control was used on the last of several pages and did nothing
C6_Witness ==
    /\ lastOp.name = "nextPage"
    /\ dispatched = <<>>
    /\ getCurrentPage = getPages
    /\ getPages >= 2

\* C7: filter(value, c) selects exactly the rows whose cell c contains value,
\* letter case ignored, for every column index c, 0 included.
C7_FilterByColumn ==
    [][ \A value \in FilterValues, c \in Cols :
          Filter(value, c) =>
             Range(ValueOf(getFilteredRows')) =
                { r \in Range(rows) : ContainsFolded(cells[r][c + 1], value) }
      ]_vars

\* C8: without pagination, after filter(value) with no column the visible
\* rows are exactly the rows whose whole text contains value, letter case
\* ignored; getFilteredRows() returns them, the row list is unchanged, and
\* the same filter applied to its own result leaves the visible set as is.
C8_FilterWholeRow ==
    [][ \A value \in FilterValues :
          (~opts.paginate /\ Filter(value, NoColumn)) =>
             LET matching ==
                     { r \in Range(rows) :
                         ContainsFolded(RowText(cells[r]), value) }
             IN  /\ Visible' = matching
                 /\ getFilteredRows' = Some(Select(rows, matching))
                 /\ rows' = rows
                 /\ cells' = cells
                 /\ Visible = matching => Visible' = Visible
      ]_vars

\* a filter has hidden some rows of a table without pagination and left others
C8_Witness ==
    /\ ~opts.paginate
    /\ lastOp.name = "filter"
    /\ Visible # {}
    /\ hidden # {}
    /\ Range(ValueOf(getFilteredRows)) = Visible

\* C9: filter("") is the same as never having filtered: every row is visible
\* and the filtered rows are reset to none.
C9_EmptyFilterClears ==
    [][ (\E c \in Cols \cup {NoColumn} : Filter(<<>>, c)) =>
          /\ Visible' = Range(rows')
          /\ getFilteredRows' = Undefined ]_vars

\* C10: hasBeenSorted() is true exactly when a sort has run, at construction
\* or by a header click (a header carries aria-sort from the first sort on).
C10_HasBeenSorted ==
    hasBeenSorted <=> (\E c \in Cols : headerSort[c] # "none")


\* ------------------------------------------------------------ sorting
\* the number written at positions a..b of the text t
RECURSIVE NumberAt(_, _, _)
NumberAt(t, a, b) ==
    IF b < a THEN 0
    ELSE 10 * NumberAt(t, a, b - 1)
         + (CHOOSE k \in 0 .. 9 : DigitChars[k + 1] = t[b])

\* the calendar date << year, month, day >> a date cell denotes
DenotedDate(t, format) ==
    IF format = "DMY"
    THEN << NumberAt(t, 7, 10), NumberAt(t, 4, 5), NumberAt(t, 1, 2) >>
    ELSE IF format = "MDY"
    THEN << NumberAt(t, 7, 10), NumberAt(t, 1, 2), NumberAt(t, 4, 5) >>
    ELSE IF format = "YMD"
    THEN << NumberAt(t, 1, 4), NumberAt(t, 6, 7), NumberAt(t, 9, 10) >>
    ELSE << NumberAt(t, 1, 4), NumberAt(t, 9, 10), NumberAt(t, 6, 7) >>

\* calendar date p is earlier than calendar date q
Earlier(p, q) ==
    \/ p[1] < q[1]
    \/ p[1] = q[1] /\ p[2] < q[2]
    \/ p[1] = q[1] /\ p[2] = q[2] /\ p[3] < q[3]

\* every date cell carries the same one of the four formats
SameValidFormat ==
    /\ \A r \in DOMAIN formats :
           /\ IsDefined(formats[r][2])
           /\ ValueOf(formats[r][2]) \in DateFormats
    /\ \A r, q \in DOMAIN formats : formats[r][2] = formats[q][2]

\* the last call was a click that sorted column c in ascending order
SortedAscendingBy(c) ==
    /\ lastOp.name = "sortOnClick"
    /\ headerSort[c] = "ascending"

RowDate(r) == DenotedDate(cells[r][2], ValueOf(formats[r][2]))

\* C11: when every cell of a Date column carries the same valid format, an
\* ascending sort of the column leaves the rows in chronological order: no
\* row stands before a row with an earlier calendar date
C11_DateSortChronological ==
    (headerType[1] = "Date" /\ SameValidFormat /\ SortedAscendingBy(1))
        => \A i, j \in 1 .. Len(rows) :
               i < j => ~Earlier(RowDate(rows[j]), RowDate(rows[i]))

\* the text pool in the order the specification gives within each group:
\* numbers by value, names without regard to case, item2 before item10
NumberWords == << << "5" >>, << "3", "0" >>, << "1", "0", "0" >> >>

NameWords ==
    << << "a", "l", "i", "c", "e" >>, << "B", "o", "b" >>,
       << "C", "h", "a", "r", "l", "i", "e" >> >>

ItemWords ==
    << << "i", "t", "e", "m", "2" >>, << "i", "t", "e", "m", "1", "0" >> >>

WordGroups == { NumberWords, NameWords, ItemWords }

\* word v stands before word w in one of the groups
Precedes(v, w) ==
    \E g \in WordGroups : \E i, j \in 1 .. Len(g) :
        i < j /\ g[i] = v /\ g[j] = w

\* C12: an ascending sort of a text column orders the rows by a
\* case-insensitive, numeric-aware collation: 5 before 30 before 100, item2
\* before item10, alice before Bob before Charlie
C12_TextSortNatural ==
    (headerType[0] = "Text" /\ SortedAscendingBy(0))
        => \A i, j \in 1 .. Len(rows) :
               i < j => ~Precedes(cells[rows[j]][1], cells[rows[i]][1])

\* a sorted table in which 100, 30 and 5 stood in that order
C12_Witness ==
    /\ headerType[0] = "Text" /\ SortedAscendingBy(0)
    /\ Len(rows) = 3
    /\ cells[1][1] = NumberWords[3]
    /\ cells[2][1] = NumberWords[2]
    /\ cells[3][1] = NumberWords[1]
    /\ rows = << 3, 2, 1 >>

\* some date cell lacks the data-date-format attribute
SomeFormatMissing == \E r \in DOMAIN formats : ~IsDefined(formats[r][2])

\* the last call was a click on the header of column c
ClickedOn(c) == lastOp.name = "sortOnClick" /\ headerSort[c] # "none"

\* C19: sorting a Date column of a table with two or more rows in which a
\* cell lacks the format designation fails with an error that the call
\* throws
C19_MissingFormatThrows ==
    (headerType[1] = "Date" /\ ClickedOn(1) /\ Len(rows) >= 2
         /\ SomeFormatMissing)
        => lastOp.error = "Error"

\* a click on the date column of two rows, the second without a format
C19_Witness ==
    /\ headerType[1] = "Date" /\ ClickedOn(1) /\ Len(rows) = 2
    /\ IsDefined(formats[1][2]) /\ ~IsDefined(formats[2][2])
    /\ lastOp.error = "Error"


\* ---------------------------------------------------------- selection
\* the body rows of table t whose checkbox is checked
CheckedRows(t) == { r \in 1 .. RowCount(t) : rowChecked[t][r] }

\* C13: whatever the checkboxes were at the start and whatever was toggled
\* since, the selected count is the number of checked rows, and it lies
\* between 0 and the number of rows
C13_SelectedCount ==
    \A t \in DOMAIN rowChecked :
        /\ selectedRows[t] = Cardinality(CheckedRows(t))
        /\ 0 <= selectedRows[t]
        /\ selectedRows[t] <= RowCount(t)

AllSelected(t) == CheckedRows(t) = 1 .. RowCount(t)

NoneSelected(t) == CheckedRows(t) = {}

\* C14: starting with nothing selected, the header checkbox of a table with
\* at least one row is checked and not indeterminate exactly when all rows
\* are selected, indeterminate and unchecked exactly when some but not all
\* are, and unchecked and not indeterminate exactly when none is
C14_HeaderTriState ==
    \A t \in DOMAIN rowChecked :
        RowCount(t) >= 1 =>
            /\ (headChecked[t] /\ ~headIndeterminate[t]) <=> AllSelected(t)
            /\ (headIndeterminate[t] /\ ~headChecked[t])
                   <=> (~AllSelected(t) /\ ~NoneSelected(t))
            /\ (~headChecked[t] /\ ~headIndeterminate[t]) <=> NoneSelected(t)

\* one row of three was unchecked after the header checkbox selected all
C14_Witness ==
    /\ DOMAIN rowChecked = {1}
    /\ RowCount(1) = 3
    /\ lastOp.name = "toggleRow"
    /\ selectedRows[1] = 2
    /\ Cardinality(CheckedRows(1)) = 2
    /\ headIndeterminate[1] /\ ~headChecked[1]

\* what the instance of table t keeps of the selection and shows of it
SelectionOf(t) ==
    << rowChecked[t], selectedMark[t], headChecked[t], headIndeterminate[t],
       selectedRows[t] >>

\* C15: two tables on different containers share no state: toggling a
\* checkbox of one table leaves the selection count, the row checkboxes and
\* the header checkbox of the other as they were
C15_NoSharedState ==
    [][\A t, u \in DOMAIN rowChecked :
           (t # u /\ (ToggleHeader(t)
                        \/ \E r \in 1 .. RowCount(t) : ToggleRow(t, r)))
               => SelectionOf(u)' = SelectionOf(u)]_vars


\* -------------------------------------------------------- preferences
\* C16: getItemsPerPage() returns n after paginate(n), whatever
\* savePreferences is and whatever the store holds
C16_ItemsPerPageAfterPaginate ==
    [][\A n \in 1 .. MaxPageSize : Paginate(n) => getItemsPerPage' = n]_vars

\* C17: with savePreferences disabled the store is neither written nor
\* read: no call changes it, and the page size a construction leaves is the
\* configured itemsPerPage whatever the store holds
C17_PreferencesOff ==
    /\ [](~opts.savePreferences /\ lastOp.name = "constructor"
              => itemsPerPage = ValueOf(configuredLimit))
    /\ [][~opts.savePreferences
              => /\ storedLimit' = storedLimit
                 /\ storedSpacing' = storedSpacing]_vars

\* the spacing value that names the density the container shows
ShownSpacing == IF condensed THEN "condensed" ELSE "regular"

\* C18: with savePreferences enabled, the density chosen through
\* toggleSpacing persists across a reload: the stored flag equals the
\* density the container had at unload, and the instance constructed next
\* shows that density
C18_SpacingPersists ==
    [][(opts.savePreferences /\ unloadListener /\ Reload)
           => /\ storedSpacing' = Some(ShownSpacing)
              /\ condensed' = condensed]_vars


\* ----------------------------------------------------------- snackbar
\* C20: every displayed snackbar eventually disappears, whatever the
\* interleaving of button clicks (repeated ones too), ESC presses and the
\* expiry of the delay, given that transitions complete; and once the queue
\* is empty the snackbar does not stay active
C20_SnackbarDisappears ==
    /\ displayed ~> ~displayed
    /\ (active /\ queue = <<>>) ~> (~active \/ queue # <<>>)


\* ------------------------------------------- the order of the first sort
\* C21: the configured order is the order of the table's first sort: with
\* sortOnLoad disabled, the first click on a sortable header sorts in the
\* order the constructor took from the option `order` (the order that
\* getSortingOrder() returns until then), marks the header with it, and
\* getSortingOrder() returns it afterwards
C21_FirstSortInConfiguredOrder ==
    [][(lastOp.name = "constructor" /\ ~hasBeenSorted
            /\ \E c \in Cols : SortOnClick(c))
           => /\ getSortingOrder' = getSortingOrder
              /\ \A c \in Cols :
                     headerSort'[c] \in {"none", AriaSort(sortASC)}]_vars

\* --------------------------------------------- what a listener observes
\* C22: on a paginated table the listener of 'sorted' is called only once
\* the visibility of the rows has been derived again for the current page:
\* the rows it finds visible are the current page's slice of the row order
\* it finds
C22_SortedAfterVisibility ==
    (opts.paginate /\ lastOp = Call("sortOnClick", "")
         /\ IsDefined(sortedSeen))
        => LET seen == ValueOf(sortedSeen)
           IN  Range(seen.rows) \ seen.hidden
                   = Block(seen.rows, itemsPerPage, currPage)

\* ------------------------------------------------------- a failed sort
\* C23: a header click whose sort fails with the format error leaves the
\* component as it was before the click: the row order, the order that
\* getSortingOrder() returns and the aria-sort markings of the headers are
\* unchanged
C23_FailedSortLeavesState ==
    [][((\E c \in Cols : SortOnClick(c)) /\ lastOp'.error # "")
           => /\ rows' = rows
              /\ getSortingOrder' = getSortingOrder
              /\ headerSort' = headerSort]_vars

\* -------------------------------------------- formats and delimiters
\* some date cell carries a format that is none of DMY, MDY, YMD and YDM
SomeFormatUnknown ==
    \E r \in DOMAIN formats :
        IsDefined(formats[r][2]) /\ ValueOf(formats[r][2]) \notin DateFormats

\* C24: the sort of a Date column of two or more rows in which a cell
\* carries a format other than DMY, MDY, YMD and YDM fails with a format
\* error; it does not complete
C24_UnknownFormatThrows ==
    (headerType[1] = "Date" /\ ClickedOn(1) /\ Len(rows) >= 2
         /\ SomeFormatUnknown)
        => lastOp.error # ""

\* the date text t with '/' in the place of each delimiter
WrittenWithSlash(t) ==
    [i \in 1 .. Len(t) |-> IF t[i] \in Delimiters THEN "/" ELSE t[i]]

\* what convertStringToDate makes of the cell of row r written with '/'
SlashDate(r) ==
    convertStringToDate(WrittenWithSlash(cells[r][2]), ValueOf(formats[r][2]))

\* C26: '.', '-' and '/' are all accepted as delimiters: when a Date column
\* whose cells carry one of the four formats has been sorted, the text of
\* every cell was parsed to the date that the same text written with '/' is
\* parsed to, and an ascending sort left the rows in the order of those
\* dates
C26_DelimitersEquivalent ==
    (headerType[1] = "Date" /\ SameValidFormat /\ ClickedOn(1))
        => /\ \A r \in DOMAIN cells :
                  convertStringToDate(cells[r][2], ValueOf(formats[r][2]))
                      = SlashDate(r)
           /\ SortedAscendingBy(1)
                  => \A i, k \in 1 .. Len(rows) :
                         i < k => ~DateLess(SlashDate(rows[k]),
                                            SlashDate(rows[i]))

\* ------------------------------------------------ an empty row universe
\* C25: when paginate() found the row universe empty (no rows, or a filter
\* that no row matches) and the controls were used since, the current page
\* is still 1 and no row is visible
C25_EmptyUniverseNoOp ==
    (lastOp.name \in {"paginate", "nextPage", "prevPage"}
         /\ getPages = 0 /\ RowUniverse = <<>>)
        => /\ getCurrentPage = 1
           /\ Visible = {}

\* ------------------------------------- selection and the row operations
\* the calls that filter, paginate, page and sort
RowOperations == {"filter", "paginate", "prevPage", "nextPage", "sortOnClick"}

\* C27: selection is independent of sort, filter and pagination: filter,
\* paginate, next, previous and header-click sorts leave the selected
\* count, every row's checkbox and selected mark and the header checkbox
\* unchanged, and checkbox toggles leave the row order, the row visibility,
\* the current page and the page count unchanged
C27_SelectionIndependent ==
    [][/\ lastOp'.name \in RowOperations
           => UNCHANGED << selectedRows, rowChecked, selectedMark,
                           headChecked, headIndeterminate >>
       /\ lastOp'.name \in {"toggleRow", "toggleHeader"}
           => UNCHANGED << rows, hidden, currPage, pages >>]_vars

\* one of two rows is selected and hidden, on page 2 of the sorted and
\* filtered table
C27_Witness ==
    /\ selectedRows = << 1 >>
    /\ rowChecked[1] # NoneChecked(Len(rows))
    /\ \E r \in hidden : rowChecked[1][r]
    /\ rows = << 2, 1 >>
    /\ IsDefined(filteredRows)
    /\ currPage = 2

\* ------------------------------------------------ sorting a column twice
\* the rows rws in the opposite order
Reversed(rws) == [i \in 1 .. Len(rws) |-> rws[Len(rws) + 1 - i]]

\* the date that the sort compares for the cell of row r
ComparedDate(r) == convertStringToDate(cells[r][2], ValueOf(formats[r][2]))

\* the keys that the sort of column c compares are pairwise distinct: the
\* dates parsed from the cells of a Date column, all of them valid, or the
\* texts of another column, letter case ignored
KeysDistinct(c) ==
    IF headerType[c] = "Date"
    THEN /\ SameValidFormat
         /\ \A r \in Range(rows) : ComparedDate(r) # NaN
         /\ \A r, q \in Range(rows) :
                r # q => ComparedDate(r) # ComparedDate(q)
    ELSE \A r, q \in Range(rows) :
             r # q => Folded(cells[r][c + 1]) # Folded(cells[q][c + 1])

\* C28: the second of two consecutive clicks on the same sortable header
\* sorts in the opposite direction and permutes the same rows, and when the
\* keys of the column are pairwise distinct it leaves the rows in the exact
\* reverse of the order the first click left
C28_SecondSortReverses ==
    [][\A c \in Cols :
           (ClickedOn(c) /\ lastOp.error = "" /\ SortOnClick(c)
                /\ lastOp'.error = "")
               => /\ getSortingOrder' # getSortingOrder
                  /\ Len(rows') = Len(rows)
                  /\ Range(rows') = Range(rows)
                  /\ KeysDistinct(c) => rows' = Reversed(rows)]_vars

\* three rows with distinct keys, 5, 30 and 100, that a click has sorted in
\* descending order
C28_Witness ==
    /\ headerType[0] = "Text" /\ ClickedOn(0)
    /\ headerSort[0] = "descending"
    /\ Len(rows) = 3 /\ KeysDistinct(0)
    /\ cells[1][1] = NumberWords[1]
    /\ cells[2][1] = NumberWords[2]
    /\ cells[3][1] = NumberWords[3]
    /\ rows = Reversed(<< 1, 2, 3 >>)

\* ---------------------------------------------- the snackbar's messages
\* C29: messages are shown one at a time in the order they were passed: a
\* step takes at most one message from the queue, the one at its head,
\* which is then the displayed message, and the message of a displayed
\* snackbar is not replaced by another
C29_OneAtATimeInOrder ==
    [][/\ Len(queue') < Len(queue)
           => /\ queue' = Tail(queue)
              /\ message' = Some(Head(queue))
              /\ displayed'
       /\ displayed => message' = message]_vars

\* C30: 'opened' and 'closed' alternate, starting with 'opened': of any two
\* notifications dispatched one after the other, one is 'opened' and the
\* other 'closed', and the first notification of all is 'opened'
C30_OpenedClosedAlternate ==
    /\ \A i \in 1 .. (Len(notified) - 1) : notified[i] # notified[i + 1]
    /\ (notified # <<>> /\ Len(notified) < MaxNotified)
           => notified[1] = "opened"

====
